---- MODULE Spec2Model ----
(***************************************************************************)
(* The adaptive (V2) task chain of mcp-server-go/internal/tools/           *)
(* task_tools.go: the store sm.TaskChainsV2 and the handlers behind the    *)
(* task_chain modes step, start, complete, insert, update and delete, and  *)
(* the linear (V1) store sm.TaskChains that the modes next, resume and     *)
(* finish still work on; and the two-step manager_analyze tool of          *)
(* intelligence_tools.go with its store sm.AnalysisState.                  *)
(*                                                                         *)
(* Step numbers are Go float64 values.  A number is kept here as the exact *)
(* integer count of 2^-56 it stands for, split in two limbs <<hi, lo>> of  *)
(* 30 bits (number = (hi * 2^30 + lo) * 2^-56), and every addition and     *)
(* division rounds to the 53-bit significand of the result's binade, ties  *)
(* to even, as IEEE-754 does: 1.1 + 0.1 and 1 + 0.2 are different numbers. *)
(***************************************************************************)
EXTENDS Integers, Sequences, FiniteSets, TLC

\* ------------------------------------------------------------------ bounds
MaxPlan == 3        \* longest plan / insert_plan / update_plan of a command
MaxCommands == 4    \* commands handled in one run
MaxSteps == 3       \* longest chain a command may leave behind

\* ----------------------------------------------------------------- float64
Limb == 2^30

FromInt(n) == <<n * 2^26, 0>>

Ulp(hi) ==
    IF hi >= 2^29 THEN 128
    ELSE IF hi >= 2^28 THEN 64
    ELSE IF hi >= 2^27 THEN 32
    ELSE IF hi >= 2^26 THEN 16
    ELSE IF hi >= 2^25 THEN 8
    ELSE IF hi >= 2^24 THEN 4
    ELSE IF hi >= 2^23 THEN 2
    ELSE 1

Carry(hi, lo) == IF lo >= Limb THEN <<hi + 1, lo - Limb>> ELSE <<hi, lo>>

\* <<hi, lo>> + num/den units (0 <= num < den), rounded to nearest, ties to even
RoundEven(hi, lo, num, den) ==
    LET u == Ulp(hi)
        q == lo \div u
        f == (lo % u) * den + num
        up == (2 * f > u * den) \/ (2 * f = u * den /\ q % 2 = 1)
    IN  Carry(hi, (q + (IF up THEN 1 ELSE 0)) * u)

\* a + b
FAdd(a, b) ==
    LET s == Carry(a[1] + b[1], a[2] + b[2])
    IN  RoundEven(s[1], s[2], 0, 1)

\* float64(i) / 10.0, by long division of i * 2^56
FDivTen(i) ==
    LET hi == i * 2^26
        q1 == hi \div 10
        a  == (hi % 10) * 2^15
        q2 == a \div 10
        b  == (a % 10) * 2^15
        q3 == b \div 10
    IN  RoundEven(q1, q2 * 2^15 + q3, b % 10, 10)

FLess(a, b) == a[1] < b[1] \/ (a[1] = b[1] /\ a[2] < b[2])

\* the text "%.1f" prints for a number, as its count of tenths: the exact
\* value times ten, rounded to the nearest integer, ties to even
FormatTenths(a) ==
    LET whole == a[1] \div 2^26
        f     == (a[1] % 2^26) * 10
        digit == f \div 2^26
        rest  == f % 2^26
        m     == (a[2] \div 2^15) * 10 + (((a[2] % 2^15) * 10) \div 2^15)
        top   == rest + (m \div 2^15)
        low   == (m % 2^15) * 2^15 + (((a[2] % 2^15) * 10) % 2^15)
        t     == whole * 10 + digit
        up    == \/ top > 2^25
                 \/ (top = 2^25 /\ low > 0)
                 \/ (top = 2^25 /\ low = 0 /\ t % 2 = 1)
    IN  t + (IF up THEN 1 ELSE 0)

\* the float64 a JSON number with one decimal digit decodes to: tenths / 10,
\* rounded once (tenths = 21 is the text 2.1)
ParseTenths(tenths) ==
    LET hi == (tenths % 10) * 2^26
        q1 == hi \div 10
        a  == (hi % 10) * 2^15
        q2 == a \div 10
        b  == (a % 10) * 2^15
        q3 == b \div 10
    IN  RoundEven((tenths \div 10) * 2^26 + q1, q2 * 2^15 + q3, b % 10, 10)

\* ------------------------------------------------------------- data model
StepStatusTodo == "todo"
StepStatusInProgress == "in_progress"
StepStatusComplete == "complete"

TaskIds == {"t1"}
Descriptions == {"d"}
Summaries == {"s1", "s2"}

\* plan entries: a map with a "name" and an optional "input"
PlanEntry(i) ==
    IF i % 3 = 1 THEN [name |-> "a"]
    ELSE IF i % 3 = 2 THEN [name |-> "b", input |-> "in"]
    ELSE [input |-> "in"]

Plans == {[i \in 1..k |-> PlanEntry(i)] : k \in 0..MaxPlan}

NonEmptyPlans == {plan \in Plans : Len(plan) > 0}

\* sm: the session manager's two chain stores; last: the mode and outcome
\* of the latest command; commands: how many commands were handled;
\* finishRequests: the task ids a finish was executed for (history);
\* scenario: the inputs of the end-to-end run and the briefing it received;
\* inflight: the requests that are being handled concurrently
VARIABLES sm, last, commands, finishRequests, scenario, inflight

vars == <<sm, last, commands, finishRequests, scenario, inflight>>

\* the outcome of one handler call: the store it leaves and what it returns
Ret(s, res, deleted) == [sm |-> s, res |-> res, deleted |-> deleted]

\* the index of the first step numbered n, 0 when there is none
Find(steps, n) ==
    IF \E i \in 1..Len(steps) : steps[i].Number = n
    THEN CHOOSE i \in 1..Len(steps) :
            /\ steps[i].Number = n
            /\ \A j \in 1..(i - 1) : steps[j].Number # n
    ELSE 0

\* fmt.Sprintf("%v", step[key]): the text of the value, "<nil>" for a key the
\* map does not hold
Sprint(entry, key) == IF key \in DOMAIN entry THEN entry[key] ELSE "<nil>"

NewStep(number, entry) ==
    [Number  |-> number,
     Name    |-> Sprint(entry, "name"),
     Input   |-> IF "input" \in DOMAIN entry THEN Sprint(entry, "input") ELSE "",
     Status  |-> StepStatusTodo,
     Summary |-> ""]

\* PutChain replacing the map by one that holds the given chain only
PutChain_Alone(s, taskID, chain) ==
    [s EXCEPT !.TaskChainsV2 = (taskID :> chain)]

PutChain(s, taskID, chain) ==
    [s EXCEPT !.TaskChainsV2 = (taskID :> chain) @@ s.TaskChainsV2]

\* startStepV2 refusing only a Complete step: an InProgress step starts again
startStepV2_Restart(s, taskID, stepNumber) ==
    IF taskID = "" THEN Ret(s, "MissingTaskID", 0)
    ELSE IF taskID \notin DOMAIN s.TaskChainsV2 THEN Ret(s, "ChainNotFound", 0)
    ELSE LET chain == s.TaskChainsV2[taskID]
             i == Find(chain.Steps, stepNumber)
         IN  IF i = 0 THEN Ret(s, "StepNotFound", 0)
             ELSE IF chain.Steps[i].Status = StepStatusComplete
             THEN Ret(s, "InvalidTransition", 0)
             ELSE Ret(PutChain(s, taskID,
                         [chain EXCEPT !.Steps[i].Status = StepStatusInProgress,
                                       !.CurrentStep = stepNumber]),
                      "ok", 0)

\* startStepV2 refusing a start while another step of the chain is InProgress
startStepV2_Exclusive(s, taskID, stepNumber) ==
    IF taskID = "" THEN Ret(s, "MissingTaskID", 0)
    ELSE IF taskID \notin DOMAIN s.TaskChainsV2 THEN Ret(s, "ChainNotFound", 0)
    ELSE LET chain == s.TaskChainsV2[taskID]
             i == Find(chain.Steps, stepNumber)
         IN  IF i = 0 THEN Ret(s, "StepNotFound", 0)
             ELSE IF \/ chain.Steps[i].Status # StepStatusTodo
                     \/ \E j \in 1..Len(chain.Steps) :
                           chain.Steps[j].Status = StepStatusInProgress
             THEN Ret(s, "InvalidTransition", 0)
             ELSE Ret(PutChain(s, taskID,
                         [chain EXCEPT !.Steps[i].Status = StepStatusInProgress,
                                       !.CurrentStep = stepNumber]),
                      "ok", 0)

startStepV2(s, taskID, stepNumber) ==
    IF taskID = "" THEN Ret(s, "MissingTaskID", 0)
    ELSE IF taskID \notin DOMAIN s.TaskChainsV2 THEN Ret(s, "ChainNotFound", 0)
    ELSE LET chain == s.TaskChainsV2[taskID]
             i == Find(chain.Steps, stepNumber)
         IN  IF i = 0 THEN Ret(s, "StepNotFound", 0)
             ELSE IF chain.Steps[i].Status # StepStatusTodo
             THEN Ret(s, "InvalidTransition", 0)
             ELSE Ret(PutChain(s, taskID,
                         [chain EXCEPT !.Steps[i].Status = StepStatusInProgress,
                                       !.CurrentStep = stepNumber]),
                      "ok", 0)

\* initTaskChainV2 numbering the steps from the loop index: 0, 1, 2, ...
initTaskChainV2_FromZero(s, taskID, description, plan) ==
    IF taskID = "" THEN Ret(s, "MissingTaskID", 0)
    ELSE IF Len(plan) = 0 THEN Ret(s, "EmptyPlan", 0)
    ELSE LET steps == [i \in 1..Len(plan) |-> NewStep(FromInt(i - 1), plan[i])]
             chain == [TaskID      |-> taskID,
                       Description |-> description,
                       Steps       |-> steps,
                       CurrentStep |-> FromInt(1),
                       Status      |-> "running",
                       spare       |-> <<>>]
         IN  startStepV2(PutChain(s, taskID, chain), taskID, FromInt(1))

\* initTaskChainV2 leaving the first step Todo: no automatic start
initTaskChainV2_NoStart(s, taskID, description, plan) ==
    IF taskID = "" THEN Ret(s, "MissingTaskID", 0)
    ELSE IF Len(plan) = 0 THEN Ret(s, "EmptyPlan", 0)
    ELSE LET steps == [i \in 1..Len(plan) |-> NewStep(FromInt(i), plan[i])]
             chain == [TaskID      |-> taskID,
                       Description |-> description,
                       Steps       |-> steps,
                       CurrentStep |-> FromInt(1),
                       Status      |-> "running",
                       spare       |-> <<>>]
         IN  Ret(PutChain(s, taskID, chain), "ok", 0)

initTaskChainV2(s, taskID, description, plan) ==
    IF taskID = "" THEN Ret(s, "MissingTaskID", 0)
    ELSE IF Len(plan) = 0 THEN Ret(s, "EmptyPlan", 0)
    ELSE LET steps == [i \in 1..Len(plan) |-> NewStep(FromInt(i), plan[i])]
             chain == [TaskID      |-> taskID,
                       Description |-> description,
                       Steps       |-> steps,
                       CurrentStep |-> FromInt(1),
                       Status      |-> "running",
                       spare       |-> <<>>]
         IN  startStepV2(PutChain(s, taskID, chain), taskID, FromInt(1))

\* the index of the first Todo step behind position completedIdx, 0 if none
\* the next-step search of renderDecisionPoint looking in front of the
\* completed step instead of behind it
NextTodo_Before(steps, completedIdx) ==
    IF \E i \in 1..(completedIdx - 1) : steps[i].Status = StepStatusTodo
    THEN CHOOSE i \in 1..(completedIdx - 1) :
            /\ steps[i].Status = StepStatusTodo
            /\ \A j \in 1..(i - 1) : steps[j].Status # StepStatusTodo
    ELSE 0

NextTodo(steps, completedIdx) ==
    IF \E i \in (completedIdx + 1)..Len(steps) : steps[i].Status = StepStatusTodo
    THEN CHOOSE i \in (completedIdx + 1)..Len(steps) :
            /\ steps[i].Status = StepStatusTodo
            /\ \A j \in (completedIdx + 1)..(i - 1) : steps[j].Status # StepStatusTodo
    ELSE 0

IsTodo(step) == step.Status = StepStatusTodo

IsComplete(step) == step.Status = StepStatusComplete

\* one line of a preview: the printed number, the name and the input hint
PreviewLine(step) ==
    [number |-> FormatTenths(step.Number), name |-> step.Name, input |-> step.Input]

\* one line of the completed-steps preview (the summaries here are shorter
\* than the 100 bytes after which the preview cuts them)
DoneLine(step) ==
    [number |-> FormatTenths(step.Number), name |-> step.Name,
     summary |-> step.Summary]

\* The decision briefing, by what its text says: the completed step and its
\* summary, option 1 (start the next step, with the store index of that step
\* and its printed number, or finish), the completed steps and the remaining
\* steps, or the "all steps done" line in their place.
renderDecisionPoint(chain, completedIdx) ==
    LET steps == chain.Steps
        nextStep == NextTodo(steps, completedIdx)
        done == SelectSeq(steps, IsComplete)
        todo == SelectSeq(steps, IsTodo)
    IN  [completed  |-> FormatTenths(steps[completedIdx].Number),
         summary    |-> steps[completedIdx].Summary,
         recommend  |-> IF nextStep # 0 THEN "start" ELSE "finish",
         nextIdx    |-> nextStep,
         nextNumber |-> IF nextStep # 0 THEN FormatTenths(steps[nextStep].Number) ELSE 0,
         donePreview |-> [i \in 1..Len(done) |-> DoneLine(done[i])],
         remaining  |-> IF nextStep # 0
                        THEN [i \in 1..Len(todo) |-> PreviewLine(todo[i])]
                        ELSE <<>>,
         allDone    |-> nextStep = 0]

\* completeStepV2 refusing only a Complete step: a Todo step completes
completeStepV2_SkipStart(s, taskID, stepNumber, summary) ==
    IF taskID = "" THEN Ret(s, "MissingTaskID", 0)
    ELSE IF summary = "" THEN Ret(s, "MissingSummary", 0)
    ELSE IF taskID \notin DOMAIN s.TaskChainsV2 THEN Ret(s, "ChainNotFound", 0)
    ELSE LET chain == s.TaskChainsV2[taskID]
             i == Find(chain.Steps, stepNumber)
         IN  IF i = 0 THEN Ret(s, "StepNotFound", 0)
             ELSE IF chain.Steps[i].Status = StepStatusComplete
             THEN Ret(s, "InvalidTransition", 0)
             ELSE Ret(PutChain(s, taskID,
                         [chain EXCEPT !.Steps[i].Summary = summary,
                                       !.Steps[i].Status = StepStatusComplete]),
                      "ok", 0)

\* completeStepV2 testing the summary after it has looked the step up
completeStepV2_LateSummary(s, taskID, stepNumber, summary) ==
    IF taskID = "" THEN Ret(s, "MissingTaskID", 0)
    ELSE IF taskID \notin DOMAIN s.TaskChainsV2 THEN Ret(s, "ChainNotFound", 0)
    ELSE LET chain == s.TaskChainsV2[taskID]
             i == Find(chain.Steps, stepNumber)
         IN  IF i = 0 THEN Ret(s, "StepNotFound", 0)
             ELSE IF summary = "" THEN Ret(s, "MissingSummary", 0)
             ELSE IF chain.Steps[i].Status # StepStatusInProgress
             THEN Ret(s, "InvalidTransition", 0)
             ELSE Ret(PutChain(s, taskID,
                         [chain EXCEPT !.Steps[i].Summary = summary,
                                       !.Steps[i].Status = StepStatusComplete]),
                      "ok", 0)

\* completeStepV2 moving current_step to the step it completes
completeStepV2_Advance(s, taskID, stepNumber, summary) ==
    IF taskID = "" THEN Ret(s, "MissingTaskID", 0)
    ELSE IF summary = "" THEN Ret(s, "MissingSummary", 0)
    ELSE IF taskID \notin DOMAIN s.TaskChainsV2 THEN Ret(s, "ChainNotFound", 0)
    ELSE LET chain == s.TaskChainsV2[taskID]
             i == Find(chain.Steps, stepNumber)
             done == [chain EXCEPT !.Steps[i].Summary = summary,
                                   !.Steps[i].Status = StepStatusComplete,
                                   !.CurrentStep = stepNumber]
         IN  IF i = 0 THEN Ret(s, "StepNotFound", 0)
             ELSE IF chain.Steps[i].Status # StepStatusInProgress
             THEN Ret(s, "InvalidTransition", 0)
             ELSE [sm |-> PutChain(s, taskID, done), res |-> "ok", deleted |-> 0,
                   out |-> renderDecisionPoint(done, i)]

\* completeStepV2 recording the summary before it tests the step's status
completeStepV2_SummaryFirst(s, taskID, stepNumber, summary) ==
    IF taskID = "" THEN Ret(s, "MissingTaskID", 0)
    ELSE IF summary = "" THEN Ret(s, "MissingSummary", 0)
    ELSE IF taskID \notin DOMAIN s.TaskChainsV2 THEN Ret(s, "ChainNotFound", 0)
    ELSE LET chain == s.TaskChainsV2[taskID]
             i == Find(chain.Steps, stepNumber)
             noted == [chain EXCEPT !.Steps[i].Summary = summary]
         IN  IF i = 0 THEN Ret(s, "StepNotFound", 0)
             ELSE IF chain.Steps[i].Status # StepStatusInProgress
             THEN Ret(PutChain(s, taskID, noted), "InvalidTransition", 0)
             ELSE Ret(PutChain(s, taskID,
                         [noted EXCEPT !.Steps[i].Status = StepStatusComplete]),
                      "ok", 0)

\* completeStepV2 that marks the step Complete without storing the summary
completeStepV2_StatusOnly(s, taskID, stepNumber, summary) ==
    IF taskID = "" THEN Ret(s, "MissingTaskID", 0)
    ELSE IF summary = "" THEN Ret(s, "MissingSummary", 0)
    ELSE IF taskID \notin DOMAIN s.TaskChainsV2 THEN Ret(s, "ChainNotFound", 0)
    ELSE LET chain == s.TaskChainsV2[taskID]
             i == Find(chain.Steps, stepNumber)
             done == [chain EXCEPT !.Steps[i].Status = StepStatusComplete]
         IN  IF i = 0 THEN Ret(s, "StepNotFound", 0)
             ELSE IF chain.Steps[i].Status # StepStatusInProgress
             THEN Ret(s, "InvalidTransition", 0)
             ELSE [sm |-> PutChain(s, taskID, done), res |-> "ok", deleted |-> 0,
                   out |-> renderDecisionPoint(done, i)]

completeStepV2(s, taskID, stepNumber, summary) ==
    IF taskID = "" THEN Ret(s, "MissingTaskID", 0)
    ELSE IF summary = "" THEN Ret(s, "MissingSummary", 0)
    ELSE IF taskID \notin DOMAIN s.TaskChainsV2 THEN Ret(s, "ChainNotFound", 0)
    ELSE LET chain == s.TaskChainsV2[taskID]
             i == Find(chain.Steps, stepNumber)
             done == [chain EXCEPT !.Steps[i].Summary = summary,
                                   !.Steps[i].Status = StepStatusComplete]
         IN  IF i = 0 THEN Ret(s, "StepNotFound", 0)
             ELSE IF chain.Steps[i].Status # StepStatusInProgress
             THEN Ret(s, "InvalidTransition", 0)
             ELSE [sm |-> PutChain(s, taskID, done), res |-> "ok", deleted |-> 0,
                   out |-> renderDecisionPoint(done, i)]

\* insertStepsV2 without the test for an empty insert_plan
insertStepsV2_AnyPlan(s, taskID, after, insertPlan) ==
    IF taskID = "" THEN Ret(s, "MissingTaskID", 0)
    ELSE IF taskID \notin DOMAIN s.TaskChainsV2 THEN Ret(s, "ChainNotFound", 0)
    ELSE LET chain == s.TaskChainsV2[taskID]
             insertIdx == Find(chain.Steps, after)
             newSteps == [i \in 1..Len(insertPlan) |->
                             NewStep(FAdd(after, FDivTen(i)), insertPlan[i])]
         IN  IF insertIdx = 0 THEN Ret(s, "AnchorNotFound", 0)
             ELSE Ret(PutChain(s, taskID,
                         [chain EXCEPT !.Steps =
                             SubSeq(chain.Steps, 1, insertIdx) \o newSteps
                             \o SubSeq(chain.Steps, insertIdx + 1, Len(chain.Steps))]),
                      "ok", 0)

\* insertStepsV2 moving current_step to the first step it inserts
insertStepsV2_Advance(s, taskID, after, insertPlan) ==
    IF taskID = "" THEN Ret(s, "MissingTaskID", 0)
    ELSE IF Len(insertPlan) = 0 THEN Ret(s, "EmptyPlan", 0)
    ELSE IF taskID \notin DOMAIN s.TaskChainsV2 THEN Ret(s, "ChainNotFound", 0)
    ELSE LET chain == s.TaskChainsV2[taskID]
             insertIdx == Find(chain.Steps, after)
             newSteps == [i \in 1..Len(insertPlan) |->
                             NewStep(FAdd(after, FDivTen(i)), insertPlan[i])]
         IN  IF insertIdx = 0 THEN Ret(s, "AnchorNotFound", 0)
             ELSE Ret(PutChain(s, taskID,
                         [chain EXCEPT !.Steps =
                             SubSeq(chain.Steps, 1, insertIdx) \o newSteps
                             \o SubSeq(chain.Steps, insertIdx + 1, Len(chain.Steps)),
                                       !.CurrentStep = newSteps[1].Number]),
                      "ok", 0)

insertStepsV2(s, taskID, after, insertPlan) ==
    IF taskID = "" THEN Ret(s, "MissingTaskID", 0)
    ELSE IF Len(insertPlan) = 0 THEN Ret(s, "EmptyPlan", 0)
    ELSE IF taskID \notin DOMAIN s.TaskChainsV2 THEN Ret(s, "ChainNotFound", 0)
    ELSE LET chain == s.TaskChainsV2[taskID]
             insertIdx == Find(chain.Steps, after)
             newSteps == [i \in 1..Len(insertPlan) |->
                             NewStep(FAdd(after, FDivTen(i)), insertPlan[i])]
         IN  IF insertIdx = 0 THEN Ret(s, "AnchorNotFound", 0)
             ELSE Ret(PutChain(s, taskID,
                         [chain EXCEPT !.Steps =
                             SubSeq(chain.Steps, 1, insertIdx) \o newSteps
                             \o SubSeq(chain.Steps, insertIdx + 1, Len(chain.Steps))]),
                      "ok", 0)

\* chain.Steps[:startIdx+1] of updateStepsV2.  On a chain without steps the
\* slice expression reaches into the backing array: it panics when the array
\* has no capacity and otherwise brings back the stale element 0 (spare).
KeptSteps(chain, startIdx) ==
    IF Len(chain.Steps) = 0 THEN chain.spare
    ELSE SubSeq(chain.Steps, 1, startIdx)

updateStepsV2(s, taskID, from, updatePlan) ==
    IF taskID = "" THEN Ret(s, "MissingTaskID", 0)
    ELSE IF Len(updatePlan) = 0 THEN Ret(s, "EmptyPlan", 0)
    ELSE IF taskID \notin DOMAIN s.TaskChainsV2 THEN Ret(s, "ChainNotFound", 0)
    ELSE LET chain == s.TaskChainsV2[taskID]
             found == Find(chain.Steps, from)
             startIdx == IF found = 0 THEN 1 ELSE found
             newSteps == [i \in 1..Len(updatePlan) |->
                             NewStep(FAdd(from, FromInt(i - 1)), updatePlan[i])]
         IN  IF Len(chain.Steps) = 0 /\ chain.spare = <<>>
             THEN Ret(s, "Panic", 0)
             ELSE Ret(PutChain(s, taskID,
                         [chain EXCEPT !.Steps = KeptSteps(chain, startIdx) \o newSteps,
                                       !.spare = <<>>]),
                      "ok", 0)

\* the filter of delete "remaining" keeping the Complete steps only
Survives_OnlyComplete(step) == step.Status = StepStatusComplete

Survives(step) ==
    step.Status = StepStatusComplete \/ step.Status = StepStatusInProgress

deleteStepsV2(s, taskID, stepToDelete, deleteScope) ==
    IF taskID = "" THEN Ret(s, "MissingTaskID", 0)
    ELSE IF taskID \notin DOMAIN s.TaskChainsV2 THEN Ret(s, "ChainNotFound", 0)
    ELSE LET chain == s.TaskChainsV2[taskID]
             i == Find(chain.Steps, stepToDelete)
             newSteps == SelectSeq(chain.Steps, Survives)
         IN  IF deleteScope = "remaining"
             THEN Ret(PutChain(s, taskID,
                         [chain EXCEPT !.Steps = newSteps, !.spare = <<>>]),
                      "ok", Len(chain.Steps) - Len(newSteps))
             ELSE IF ~FLess(FromInt(0), stepToDelete) THEN Ret(s, "NoDeleteTarget", 0)
             ELSE IF i = 0 THEN Ret(s, "StepNotFound", 0)
             ELSE IF chain.Steps[i].Status = StepStatusInProgress
             THEN Ret(s, "CannotDeleteActive", 0)
             ELSE Ret(PutChain(s, taskID,
                         [chain EXCEPT
                             !.Steps = SubSeq(chain.Steps, 1, i - 1)
                                       \o SubSeq(chain.Steps, i + 1, Len(chain.Steps)),
                             !.spare = IF Len(chain.Steps) = 1
                                       THEN <<chain.Steps[1]>> ELSE <<>>]),
                      "ok", 0)

\* --------------------------------------------- next, resume, finish (V1)
\* These three handlers read and write sm.TaskChains only.  Its chains are
\* [TaskID, Plan, CurrentStep, Status] with a 0-based CurrentStep.
\* enhanceStepDescription: the name with the hint the keyword in it calls
\* for; a name without keyword comes back alone.  Of the names commands
\* carry here only "map" holds a keyword.
enhanceStepDescription(name) ==
    IF name = "map" THEN <<name, "standard">> ELSE <<name>>

\* initTaskChain, the initialize of the linear store.  No mode of the
\* dispatcher calls it.
initTaskChain(s, taskID, plan) ==
    IF taskID = "" THEN Ret(s, "MissingTaskID", 0)
    ELSE IF Len(plan) = 0 THEN Ret(s, "EmptyPlan", 0)
    ELSE Ret([s EXCEPT !.TaskChains =
                 (taskID :> [TaskID      |-> taskID,
                             Plan        |-> [i \in 1..Len(plan) |->
                                 enhanceStepDescription(Sprint(plan[i], "name"))],
                             CurrentStep |-> 0,
                             Status      |-> "running"]) @@ s.TaskChains],
             "ok", 0)

finishChain(s, taskID) ==
    IF taskID = "" THEN Ret(s, "MissingTaskID", 0)
    ELSE IF taskID \in DOMAIN s.TaskChains
    THEN Ret([s EXCEPT !.TaskChains[taskID].Status = "finished"], "ok", 0)
    ELSE Ret(s, "ok", 0)

\* getNextStep closing the adaptive chain too once it holds no Todo step
getNextStep_AutoFinish(s, taskID) ==
    IF taskID = "" THEN Ret(s, "MissingTaskID", 0)
    ELSE IF taskID \in DOMAIN s.TaskChainsV2
            /\ \A i \in 1..Len(s.TaskChainsV2[taskID].Steps) :
                  s.TaskChainsV2[taskID].Steps[i].Status # StepStatusTodo
    THEN Ret([s EXCEPT !.TaskChainsV2[taskID].Status = "finished"], "ok", 0)
    ELSE Ret(s, "ok", 0)

getNextStep(s, taskID) ==
    IF taskID = "" THEN Ret(s, "MissingTaskID", 0)
    ELSE IF taskID \notin DOMAIN s.TaskChains THEN Ret(s, "ok", 0)
    ELSE LET chain == s.TaskChains[taskID]
             stepped == [s EXCEPT !.TaskChains[taskID].CurrentStep = @ + 1]
         IN  IF chain.CurrentStep + 1 >= Len(chain.Plan)
             THEN finishChain([stepped EXCEPT !.TaskChains[taskID].Status = "finished"],
                              taskID)
             ELSE Ret(stepped, "ok", 0)

\* chain.Plan[chain.CurrentStep] is out of range once next has run past the end
resumeTask(s, taskID) ==
    IF taskID = "" THEN Ret(s, "MissingTaskID", 0)
    ELSE IF taskID \in DOMAIN s.TaskChains
            /\ s.TaskChains[taskID].CurrentStep >= Len(s.TaskChains[taskID].Plan)
    THEN Ret(s, "Panic", 0)
    ELSE Ret(s, "ok", 0)

\* ------------------------------------------------------------ the commands
CmdIds == TaskIds \cup {""}

\* step numbers a command may carry: zero and the numbers in use
NumberArgs(taskID) ==
    {FromInt(0)}
    \cup (IF taskID \in DOMAIN sm.TaskChainsV2
          THEN {sm.TaskChainsV2[taskID].Steps[i].Number :
                    i \in 1..Len(sm.TaskChainsV2[taskID].Steps)}
          ELSE {})

\* no chain is longer than MaxSteps, and every step number is within the
\* range the two limbs hold (below 15)
Bounded(s) ==
    \A t \in DOMAIN s.TaskChainsV2 :
        /\ Len(s.TaskChainsV2[t].Steps) <= MaxSteps
        /\ \A i \in 1..Len(s.TaskChainsV2[t].Steps) :
              s.TaskChainsV2[t].Steps[i].Number[1] < 15 * 2^26

Command(mode, taskID, number, summary, plan, scope, r) ==
    /\ commands < MaxCommands
    /\ Bounded(r.sm)
    /\ commands' = commands + 1
    /\ sm' = r.sm
    /\ last' = [mode |-> mode, res |-> r.res, deleted |-> r.deleted]
    /\ finishRequests' = IF mode = "finish" /\ taskID # ""
                         THEN finishRequests \cup {taskID} ELSE finishRequests
    /\ UNCHANGED <<scenario, inflight>>

\* mode step dispatched to the initialize of the linear store
ModeStep_V1 ==
    \E taskID \in CmdIds :
        \E plan \in Plans :
            Command("step", taskID, FromInt(0), "", plan, "",
                    initTaskChain(sm, taskID, plan))

ModeStep ==
    \E taskID \in CmdIds, description \in Descriptions :
        \E plan \in Plans :
            Command("step", taskID, FromInt(0), "", plan, "",
                    initTaskChainV2(sm, taskID, description, plan))

ModeStart ==
    \E taskID \in CmdIds :
        \E stepNumber \in NumberArgs(taskID) :
            Command("start", taskID, stepNumber, "", <<>>, "",
                    startStepV2(sm, taskID, stepNumber))

ModeComplete ==
    \E taskID \in CmdIds, summary \in Summaries \cup {""} :
        \E stepNumber \in NumberArgs(taskID) :
            Command("complete", taskID, stepNumber, summary, <<>>, "",
                    completeStepV2(sm, taskID, stepNumber, summary))

ModeInsert ==
    \E taskID \in CmdIds, plan \in Plans :
        \E after \in NumberArgs(taskID) :
            Command("insert", taskID, after, "", plan, "",
                    insertStepsV2(sm, taskID, after, plan))

ModeUpdate ==
    \E taskID \in CmdIds, plan \in Plans :
        \E from \in NumberArgs(taskID) :
            Command("update", taskID, from, "", plan, "",
                    updateStepsV2(sm, taskID, from, plan))

ModeDelete ==
    \E taskID \in CmdIds, scope \in {"", "remaining"} :
        \E stepNumber \in NumberArgs(taskID) :
            Command("delete", taskID, stepNumber, "", <<>>, scope,
                    deleteStepsV2(sm, taskID, stepNumber, scope))

ModeNext ==
    \E taskID \in CmdIds :
        Command("next", taskID, FromInt(0), "", <<>>, "", getNextStep(sm, taskID))

ModeResume ==
    \E taskID \in CmdIds :
        Command("resume", taskID, FromInt(0), "", <<>>, "", resumeTask(sm, taskID))

ModeFinish ==
    \E taskID \in CmdIds :
        Command("finish", taskID, FromInt(0), "", <<>>, "", finishChain(sm, taskID))

\* both stores start without a chain (a nil map reads like an empty one)
EmptyStore == [TaskChainsV2 |-> <<>>, TaskChains |-> <<>>]

Init ==
    /\ sm = EmptyStore
    /\ commands = 0
    /\ finishRequests = {}
    /\ scenario = <<>>
    /\ inflight = <<>>
    /\ last = [mode |-> "none", res |-> "ok", deleted |-> 0]

Next ==
    \/ ModeStep
    \/ ModeStart
    \/ ModeComplete
    \/ ModeInsert
    \/ ModeUpdate
    \/ ModeDelete
    \/ ModeNext
    \/ ModeResume
    \/ ModeFinish

Spec == Init /\ [][Next]_vars

\* ------------------------------------------------------ the end-to-end run
\* One client on one task: initialize with a plan of three steps, complete
\* step 1, insert one step after step 1, delete the remaining steps.  The
\* names, the summary and the inserted name are drawn when the run begins.
ScenarioNames == {"search", "analyze", "write"}
ScenarioSummaries == {"found X", "s1"}
ScenarioInserts == {"read file", "a"}

ScenarioInputs ==
    {[plan |-> <<[name |-> n1], [name |-> n2], [name |-> n3]>>,
      summary |-> summary,
      insertPlan |-> <<[name |-> n4]>>,
      out |-> <<>>] :
        n1 \in ScenarioNames, n2 \in ScenarioNames, n3 \in ScenarioNames,
        summary \in ScenarioSummaries, n4 \in ScenarioInserts}

\* the n-th command of the run was handled with outcome r
ScenarioCommand(n, mode, r) ==
    /\ commands = n - 1
    /\ commands' = n
    /\ sm' = r.sm
    /\ last' = [mode |-> mode, res |-> r.res, deleted |-> r.deleted]
    /\ UNCHANGED <<finishRequests, inflight>>

ScenarioInitialize ==
    /\ ScenarioCommand(1, "step", initTaskChainV2(sm, "t1", "d", scenario.plan))
    /\ UNCHANGED scenario

ScenarioComplete ==
    LET r == completeStepV2(sm, "t1", FromInt(1), scenario.summary)
    IN  /\ ScenarioCommand(2, "complete", r)
        /\ scenario' = [scenario EXCEPT !.out = IF r.res = "ok" THEN r.out ELSE <<>>]

ScenarioInsert ==
    /\ ScenarioCommand(3, "insert",
                       insertStepsV2(sm, "t1", FromInt(1), scenario.insertPlan))
    /\ UNCHANGED scenario

ScenarioDelete ==
    /\ ScenarioCommand(4, "delete", deleteStepsV2(sm, "t1", FromInt(0), "remaining"))
    /\ UNCHANGED scenario

InitScenario ==
    /\ sm = EmptyStore
    /\ commands = 0
    /\ finishRequests = {}
    /\ last = [mode |-> "none", res |-> "ok", deleted |-> 0]
    /\ scenario \in ScenarioInputs
    /\ inflight = <<>>

NextScenario ==
    \/ ScenarioInitialize
    \/ ScenarioComplete
    \/ ScenarioInsert
    \/ ScenarioDelete

SpecScenario == InitScenario /\ [][NextScenario]_vars

\* ---------------------------------------------------- concurrent requests
\* The handlers take no lock.  Two requests on the chain of "t1", each an
\* insert or a delete of the remaining steps, are handled by two goroutines.
\* A handler reads chain.Steps when it looks for its anchor (insert, lines
\* 870-878) or filters the steps (delete, lines 986-991) and assigns
\* chain.Steps afterwards (lines 905 and 993); the other goroutine may run
\* between the two.  The chains are those initialize leaves, with step 1 in
\* progress or completed: their slices are full, so that an insert always
\* copies the steps it read into a new array.
ConcurrentChains ==
    {initTaskChainV2(EmptyStore, "t1", "d", plan).sm : plan \in NonEmptyPlans}
    \cup {completeStepV2(initTaskChainV2(EmptyStore, "t1", "d", plan).sm,
                         "t1", FromInt(1), "s1").sm : plan \in NonEmptyPlans}

Requests ==
    {[op |-> "insert", after |-> FromInt(n), plan |-> plan, pc |-> "ready",
      res |-> "", deleted |-> 0, steps |-> <<>>] :
        n \in 1..MaxPlan, plan \in NonEmptyPlans}
    \cup {[op |-> "delete", after |-> FromInt(0), plan |-> <<>>, pc |-> "ready",
           res |-> "", deleted |-> 0, steps |-> <<>>]}

\* the request handled alone, as the dispatcher would
Handle(s, req) ==
    IF req.op = "insert" THEN insertStepsV2(s, "t1", req.after, req.plan)
    ELSE deleteStepsV2(s, "t1", req.after, "remaining")

\* goroutine p has read the chain: it holds the steps it is going to assign,
\* or has returned an error
ReadSteps(p, op) ==
    /\ inflight # <<>>
    /\ inflight.reqs[p].op = op
    /\ inflight.reqs[p].pc = "ready"
    /\ LET r == Handle(sm, inflight.reqs[p])
       IN  inflight' = [inflight EXCEPT !.reqs[p] =
                [@ EXCEPT !.pc = IF r.res = "ok" THEN "read" ELSE "done",
                          !.res = r.res,
                          !.deleted = r.deleted,
                          !.steps = r.sm.TaskChainsV2["t1"].Steps]]
    /\ UNCHANGED <<sm, last, commands, finishRequests, scenario>>

\* goroutine p assigns chain.Steps and returns
AssignSteps(p, op) ==
    /\ inflight # <<>>
    /\ inflight.reqs[p].op = op
    /\ inflight.reqs[p].pc = "read"
    /\ sm' = [sm EXCEPT !.TaskChainsV2["t1"].Steps = inflight.reqs[p].steps]
    /\ inflight' = [inflight EXCEPT !.reqs[p].pc = "done"]
    /\ UNCHANGED <<last, commands, finishRequests, scenario>>

InsertLookup == \E p \in 1..2 : ReadSteps(p, "insert")

InsertSplice == \E p \in 1..2 : AssignSteps(p, "insert")

DeleteFilter == \E p \in 1..2 : ReadSteps(p, "delete")

DeleteAssign == \E p \in 1..2 : AssignSteps(p, "delete")

InitConcurrent ==
    /\ sm \in ConcurrentChains
    /\ commands = 0
    /\ finishRequests = {}
    /\ last = [mode |-> "none", res |-> "ok", deleted |-> 0]
    /\ scenario = <<>>
    /\ \E r1 \in Requests, r2 \in Requests :
          inflight = [base |-> sm, reqs |-> <<r1, r2>>]

NextConcurrent ==
    \/ InsertLookup
    \/ InsertSplice
    \/ DeleteFilter
    \/ DeleteAssign

SpecConcurrent == InitConcurrent /\ [][NextConcurrent]_vars

\* ------------------------------------------- two completes at the same time
\* Two complete requests on the chain of t1, each in its own goroutine.
\* completeStepV2 takes no lock: the status test, the write of the summary
\* and the write of the status are three steps another goroutine may run
\* between.
CompleteChains ==
    ConcurrentChains
    \cup {startStepV2(c, "t1", FromInt(2)).sm : c \in ConcurrentChains}

CompleteRequests ==
    {[op |-> "complete", number |-> FromInt(n), summary |-> s, pc |-> "ready",
      res |-> "", idx |-> 0] : n \in 1..2, s \in Summaries}

\* goroutine p looks the step up and tests its status
CompleteCheck ==
    \E p \in 1..2 :
        /\ inflight # <<>>
        /\ inflight.reqs[p].pc = "ready"
        /\ LET steps == sm.TaskChainsV2["t1"].Steps
               i == Find(steps, inflight.reqs[p].number)
           IN  inflight' = [inflight EXCEPT !.reqs[p] =
                    IF i = 0
                    THEN [@ EXCEPT !.pc = "done", !.res = "StepNotFound"]
                    ELSE IF steps[i].Status # StepStatusInProgress
                    THEN [@ EXCEPT !.pc = "done", !.res = "InvalidTransition"]
                    ELSE [@ EXCEPT !.pc = "checked", !.idx = i]]
        /\ UNCHANGED <<sm, last, commands, finishRequests, scenario>>

\* goroutine p writes targetStep.Summary
CompleteSummary ==
    \E p \in 1..2 :
        /\ inflight # <<>>
        /\ inflight.reqs[p].pc = "checked"
        /\ sm' = [sm EXCEPT !.TaskChainsV2["t1"].Steps[inflight.reqs[p].idx].Summary =
                      inflight.reqs[p].summary]
        /\ inflight' = [inflight EXCEPT !.reqs[p].pc = "summarised"]
        /\ UNCHANGED <<last, commands, finishRequests, scenario>>

\* goroutine p writes targetStep.Status and returns the briefing
CompleteStatus ==
    \E p \in 1..2 :
        /\ inflight # <<>>
        /\ inflight.reqs[p].pc = "summarised"
        /\ sm' = [sm EXCEPT !.TaskChainsV2["t1"].Steps[inflight.reqs[p].idx].Status =
                      StepStatusComplete]
        /\ inflight' = [inflight EXCEPT !.reqs[p] =
                            [@ EXCEPT !.pc = "done", !.res = "ok"]]
        /\ UNCHANGED <<last, commands, finishRequests, scenario>>

InitCompletes ==
    /\ sm \in CompleteChains
    /\ commands = 0
    /\ finishRequests = {}
    /\ last = [mode |-> "none", res |-> "ok", deleted |-> 0]
    /\ scenario = <<>>
    /\ \E r1 \in CompleteRequests, r2 \in CompleteRequests :
          inflight = [base |-> sm, reqs |-> <<r1, r2>>]

NextCompletes ==
    \/ CompleteCheck
    \/ CompleteSummary
    \/ CompleteStatus

SpecCompletes == InitCompletes /\ [][NextCompletes]_vars

\* ------------------------------------------ two initializes at the same time
\* Two initialize requests, each in its own goroutine, on a store whose
\* TaskChainsV2 map is still nil.  initTaskChainV2 takes no lock: the nil
\* test, the creation of the map, the store of the chain and the start of
\* step 1 are steps another goroutine may run between.  inflight.nilmap
\* tells the nil map from an empty one.
InitIds == {"t1", "t2"}

InitRequests ==
    {[op |-> "step", taskID |-> t, plan |-> plan, pc |-> "ready",
      sawNil |-> FALSE, res |-> ""] : t \in InitIds, plan \in NonEmptyPlans}

\* the chain initTaskChainV2 stores, before it starts step 1
FreshChain(taskID, description, plan) ==
    [TaskID      |-> taskID,
     Description |-> description,
     Steps       |-> [i \in 1..Len(plan) |-> NewStep(FromInt(i), plan[i])],
     CurrentStep |-> FromInt(1),
     Status      |-> "running",
     spare       |-> <<>>]

\* goroutine p evaluates sm.TaskChainsV2 == nil
InitNilCheck ==
    \E p \in 1..2 :
        /\ inflight # <<>>
        /\ inflight.reqs[p].pc = "ready"
        /\ inflight' = [inflight EXCEPT !.reqs[p] =
                            [@ EXCEPT !.pc = "checked",
                                      !.sawNil = inflight.nilmap]]
        /\ UNCHANGED <<sm, last, commands, finishRequests, scenario>>

\* goroutine p, having seen nil, assigns a new empty map to sm.TaskChainsV2
InitMakeMap ==
    \E p \in 1..2 :
        /\ inflight # <<>>
        /\ inflight.reqs[p].pc = "checked"
        /\ IF inflight.reqs[p].sawNil
           THEN /\ sm' = [sm EXCEPT !.TaskChainsV2 = <<>>]
                /\ inflight' = [inflight EXCEPT !.nilmap = FALSE,
                                                !.reqs[p].pc = "made"]
           ELSE /\ sm' = sm
                /\ inflight' = [inflight EXCEPT !.reqs[p].pc = "made"]
        /\ UNCHANGED <<last, commands, finishRequests, scenario>>

\* goroutine p stores its chain in the map sm.TaskChainsV2 refers to now
InitStoreChain ==
    \E p \in 1..2 :
        /\ inflight # <<>>
        /\ inflight.reqs[p].pc = "made"
        /\ sm' = PutChain(sm, inflight.reqs[p].taskID,
                     FreshChain(inflight.reqs[p].taskID, "d", inflight.reqs[p].plan))
        /\ inflight' = [inflight EXCEPT !.reqs[p].pc = "stored"]
        /\ UNCHANGED <<last, commands, finishRequests, scenario>>

\* goroutine p starts step 1 of its task and returns what startStepV2 returns
InitStartFirst ==
    \E p \in 1..2 :
        /\ inflight # <<>>
        /\ inflight.reqs[p].pc = "stored"
        /\ LET r == startStepV2(sm, inflight.reqs[p].taskID, FromInt(1))
           IN  /\ sm' = r.sm
               /\ inflight' = [inflight EXCEPT !.reqs[p] =
                                   [@ EXCEPT !.pc = "done", !.res = r.res]]
        /\ UNCHANGED <<last, commands, finishRequests, scenario>>

InitInits ==
    /\ sm = EmptyStore
    /\ commands = 0
    /\ finishRequests = {}
    /\ last = [mode |-> "none", res |-> "ok", deleted |-> 0]
    /\ scenario = <<>>
    /\ \E r1 \in InitRequests, r2 \in InitRequests :
          inflight = [nilmap |-> TRUE, reqs |-> <<r1, r2>>]

NextInits ==
    \/ InitNilCheck
    \/ InitMakeMap
    \/ InitStoreChain
    \/ InitStartFirst

SpecInits == InitInits /\ [][NextInits]_vars

\* ------------------------------------------- an actor following the briefing
\* A chain was initialized and no insert, update, delete or initialize comes
\* any more: the actor completes the step in progress and then sends the
\* start command the briefing of that complete printed.  scenario.out is the
\* briefing the actor has read last.
ActorEntries == {[name |-> "a"], [name |-> "b", input |-> "in"]}

ActorPlans == UNION {[1..k -> ActorEntries] : k \in 1..MaxPlan}

\* the actor completes the step that is in progress
ActorComplete ==
    /\ last.mode # "complete"
    /\ \E i \in 1..Len(sm.TaskChainsV2["t1"].Steps), summary \in Summaries :
          /\ sm.TaskChainsV2["t1"].Steps[i].Status = StepStatusInProgress
          /\ LET r == completeStepV2(sm, "t1",
                                     sm.TaskChainsV2["t1"].Steps[i].Number, summary)
             IN  /\ sm' = r.sm
                 /\ last' = [mode |-> "complete", res |-> r.res, deleted |-> 0]
                 /\ scenario' = [out |-> IF r.res = "ok" THEN r.out ELSE <<>>]
    /\ commands' = commands + 1
    /\ UNCHANGED <<finishRequests, inflight>>

\* the actor sends the start command printed in the briefing: mode start
\* with the step number as printed, one decimal digit
ActorStart ==
    /\ last.mode = "complete"
    /\ scenario.out # <<>>
    /\ scenario.out.recommend = "start"
    /\ LET r == startStepV2(sm, "t1", ParseTenths(scenario.out.nextNumber))
       IN  /\ sm' = r.sm
           /\ last' = [mode |-> "start", res |-> r.res, deleted |-> 0]
    /\ commands' = commands + 1
    /\ UNCHANGED <<scenario, finishRequests, inflight>>

InitActor ==
    /\ \E plan \in ActorPlans :
          sm = initTaskChainV2(EmptyStore, "t1", "d", plan).sm
    /\ commands = 1
    /\ finishRequests = {}
    /\ last = [mode |-> "step", res |-> "ok", deleted |-> 0]
    /\ scenario = [out |-> <<>>]
    /\ inflight = <<>>

NextActor ==
    \/ ActorComplete
    \/ ActorStart

\* the actor never stops sending the next command while there is one
SpecActor == InitActor /\ [][NextActor]_vars /\ WF_vars(NextActor)

\* ------------------------------------------------------- manager_analyze
\* The two-step analysis tool.  Here sm is the session's
\* [ProjectRoot, AnalysisState], AnalysisState the map from task id to the
\* state step 1 saved; scenario is history: pending holds the ids a step 1
\* stored state for and no successful step 2 has consumed since, consumed
\* the ids a successful step 2 was handled for.
AnalyzeIds == {"analyze_1", "analyze_2"}
AnalyzeDescriptions == {"fix bug", "refactor", "hello"}
AnalyzeIntents == {"", "develop", "bogus"}

\* determineIntent: a valid explicit intent in upper case, else the keyword
\* of the description, else RESEARCH for a read-only task, else nothing
determineIntent(desc, explicitIntent, readOnly) ==
    IF explicitIntent = "develop" THEN "DEVELOP"
    ELSE IF desc = "fix bug" THEN "DEBUG"
    ELSE IF desc = "refactor" THEN "REFACTOR"
    ELSE IF readOnly THEN "RESEARCH"
    ELSE ""

\* step 1 saves the analysis under the id it was given (descriptions here
\* are shorter than the 300 bytes kept of a directive)
handleAnalyzeStep1(s, desc, explicitIntent, readOnly, taskID) ==
    LET state == [Intent        |-> determineIntent(desc, explicitIntent, readOnly),
                  UserDirective |-> desc]
    IN  Ret([s EXCEPT !.AnalysisState = (taskID :> state) @@ @], "ok", 0)

\* handleAnalyzeStep2 that leaves the saved state in the session
handleAnalyzeStep2_KeepState(s, taskID) ==
    IF taskID \notin DOMAIN s.AnalysisState THEN Ret(s, "StateNotFound", 0)
    ELSE Ret(s, "ok", 0)

\* step 2 reads the saved state, builds the briefing and deletes the state
handleAnalyzeStep2(s, taskID) ==
    IF taskID \notin DOMAIN s.AnalysisState THEN Ret(s, "StateNotFound", 0)
    ELSE Ret([s EXCEPT !.AnalysisState =
                 [t \in DOMAIN @ \ {taskID} |-> @[t]]], "ok", 0)

\* the handler of the tool; now is the id step 1 derives from the clock
wrapAnalyze(s, step, argID, desc, explicitIntent, readOnly, now) ==
    IF s.ProjectRoot = "" THEN Ret(s, "NotInitialized", 0)
    ELSE IF step = 0 \/ step = 1
    THEN handleAnalyzeStep1(s, desc, explicitIntent, readOnly, now)
    ELSE IF argID = "" THEN Ret(s, "MissingTaskID", 0)
    ELSE handleAnalyzeStep2(s, argID)

\* a call with step 1, or without step
AnalyzeStep1 ==
    \E step \in {0, 1}, argID \in AnalyzeIds \cup {""}, now \in AnalyzeIds,
       desc \in AnalyzeDescriptions, explicitIntent \in AnalyzeIntents,
       readOnly \in BOOLEAN :
        LET r == wrapAnalyze(sm, step, argID, desc, explicitIntent, readOnly, now)
        IN  /\ commands < MaxCommands
            /\ commands' = commands + 1
            /\ sm' = r.sm
            /\ last' = [mode |-> "analyze1", res |-> r.res, deleted |-> 0,
                        taskID |-> now]
            /\ scenario' = IF r.res = "ok"
                           THEN [scenario EXCEPT !.pending = @ \cup {now}]
                           ELSE scenario
            /\ UNCHANGED <<finishRequests, inflight>>

\* a call with any other step
AnalyzeStep2 ==
    \E step \in {2, 3}, argID \in AnalyzeIds \cup {""}, now \in AnalyzeIds,
       desc \in AnalyzeDescriptions :
        LET r == wrapAnalyze(sm, step, argID, desc, "", FALSE, now)
        IN  /\ commands < MaxCommands
            /\ commands' = commands + 1
            /\ sm' = r.sm
            /\ last' = [mode |-> "analyze2", res |-> r.res, deleted |-> 0,
                        taskID |-> argID]
            /\ scenario' = IF r.res = "ok"
                           THEN [pending  |-> scenario.pending \ {argID},
                                 consumed |-> scenario.consumed \cup {argID}]
                           ELSE scenario
            /\ UNCHANGED <<finishRequests, inflight>>

InitAnalyze ==
    /\ sm \in {[ProjectRoot |-> root, AnalysisState |-> <<>>] : root \in {"", "/p"}}
    /\ commands = 0
    /\ finishRequests = {}
    /\ last = [mode |-> "none", res |-> "ok", deleted |-> 0, taskID |-> ""]
    /\ scenario = [pending |-> {}, consumed |-> {}]
    /\ inflight = <<>>

NextAnalyze ==
    \/ AnalyzeStep1
    \/ AnalyzeStep2

SpecAnalyze == InitAnalyze /\ [][NextAnalyze]_vars

\* ------------------------------------------------- a second chain in store
\* The same commands, addressed to the ids of CmdIds, on a store that holds
\* the chain of another task already: the one left by
\* step(t2, [a, b]); complete(t2, 1, s1).
OtherTask == "t2"

OtherChainStore ==
    completeStepV2(
        initTaskChainV2(EmptyStore, OtherTask, "d",
                        <<PlanEntry(1), PlanEntry(2)>>).sm,
        OtherTask, FromInt(1), "s1").sm

InitIsolation ==
    /\ sm = OtherChainStore
    /\ commands = 0
    /\ finishRequests = {}
    /\ last = [mode |-> "none", res |-> "ok", deleted |-> 0]
    /\ scenario = <<>>
    /\ inflight = <<>>

SpecIsolation == InitIsolation /\ [][Next]_vars

\* ------------------------------------------------------------- properties
Chains == sm.TaskChainsV2

StepsOf(t) == Chains[t].Steps

Rank(status) ==
    IF status = StepStatusTodo THEN 1
    ELSE IF status = StepStatusInProgress THEN 2
    ELSE 3

HasStatus(t, status) ==
    /\ t \in DOMAIN Chains
    /\ \E i \in 1..Len(StepsOf(t)) : StepsOf(t)[i].Status = status

Ascending(steps) ==
    \A i \in 1..(Len(steps) - 1) : ~FLess(steps[i + 1].Number, steps[i].Number)

StrictlyAscending(steps) ==
    \A i \in 1..(Len(steps) - 1) : FLess(steps[i].Number, steps[i + 1].Number)

\* C1: initialize with a non-empty plan of length N on a task_id that is not
\* in the store succeeds and leaves a chain of exactly N steps numbered 1..N
\* in plan order, step 1 InProgress and every other step Todo, with
\* current_step 1 and status running.
C1_InitializeYieldsPlan ==
    \A t \in TaskIds, d \in Descriptions, plan \in Plans :
        (Len(plan) > 0 /\ t \notin DOMAIN Chains) =>
            LET r == initTaskChainV2(sm, t, d, plan)
                c == r.sm.TaskChainsV2[t]
            IN  /\ r.res = "ok"
                /\ t \in DOMAIN r.sm.TaskChainsV2
                /\ Len(c.Steps) = Len(plan)
                /\ \A i \in 1..Len(plan) :
                      /\ c.Steps[i].Number = FromInt(i)
                      /\ c.Steps[i].Name =
                            (IF "name" \in DOMAIN plan[i] THEN plan[i].name ELSE "<nil>")
                      /\ c.Steps[i].Input =
                            (IF "input" \in DOMAIN plan[i] THEN plan[i].input ELSE "")
                      /\ c.Steps[i].Summary = ""
                      /\ c.Steps[i].Status =
                            IF i = 1 THEN StepStatusInProgress ELSE StepStatusTodo
                /\ c.CurrentStep = FromInt(1)
                /\ c.Status = "running"
                /\ c.Description = d

\* the first command of a run was an initialize of a two-step plan
C1_Witness ==
    /\ commands = 1
    /\ last.mode = "step" /\ last.res = "ok"
    /\ "t1" \in DOMAIN Chains
    /\ Len(StepsOf("t1")) = 2
    /\ StepsOf("t1")[1].Status = StepStatusInProgress
    /\ StepsOf("t1")[2].Status = StepStatusTodo

\* C2: the status of the step numbered n never moves backwards: from one
\* state to the next, the step a lookup of n finds does not go from
\* InProgress to Todo nor from Complete to Todo or InProgress.
C2_StatusOnlyForward ==
    [][\A t \in DOMAIN Chains : \A i \in 1..Len(StepsOf(t)) :
          LET n == StepsOf(t)[i].Number
              before == Find(StepsOf(t), n)
              after == Find(sm'.TaskChainsV2[t].Steps, n)
          IN  after # 0 =>
                Rank(sm'.TaskChainsV2[t].Steps[after].Status)
                    >= Rank(StepsOf(t)[before].Status)]_vars

\* C3: complete with a non-empty summary succeeds only on an InProgress step
\* and then leaves it Complete; on a Todo or Complete step it fails with
\* InvalidTransition and changes nothing; start and complete on the step
\* just completed, and on any Complete step, fail.
C3_CompleteOnlyInProgress ==
    \A t \in DOMAIN Chains : \A n \in NumberArgs(t) : \A s \in Summaries :
        LET i == Find(StepsOf(t), n)
            r == completeStepV2(sm, t, n, s)
        IN  /\ r.res = "ok" =>
                /\ i # 0
                /\ StepsOf(t)[i].Status = StepStatusInProgress
                /\ r.sm.TaskChainsV2[t].Steps[i].Status = StepStatusComplete
                /\ startStepV2(r.sm, t, n).res = "InvalidTransition"
                /\ \A s2 \in Summaries :
                      completeStepV2(r.sm, t, n, s2).res = "InvalidTransition"
            /\ (i # 0 /\ StepsOf(t)[i].Status # StepStatusInProgress) =>
                /\ r.res = "InvalidTransition"
                /\ r.sm = sm
            /\ (i # 0 /\ StepsOf(t)[i].Status = StepStatusComplete) =>
                /\ startStepV2(sm, t, n).res = "InvalidTransition"
                /\ startStepV2(sm, t, n).sm = sm

\* a complete was refused on a chain that holds a completed step
C3_Witness ==
    /\ last.mode = "complete" /\ last.res = "InvalidTransition"
    /\ HasStatus("t1", StepStatusComplete)

\* C4: once the step numbered n is Complete with summary s, the step
\* numbered n carries summary s in the next state, whatever command ran.
C4_SummaryImmutable ==
    [][\A t \in DOMAIN Chains : \A i \in 1..Len(StepsOf(t)) :
          LET n == StepsOf(t)[i].Number
              before == Find(StepsOf(t), n)
              after == Find(sm'.TaskChainsV2[t].Steps, n)
          IN  StepsOf(t)[before].Status = StepStatusComplete =>
                /\ after # 0
                /\ sm'.TaskChainsV2[t].Steps[after].Summary
                      = StepsOf(t)[before].Summary]_vars

\* C5: complete with an empty summary fails with MissingSummary for every
\* step number, whether the step is absent, Todo, InProgress or Complete and
\* whether the chain exists, and changes nothing.
C5_EmptySummaryRejected ==
    \A t \in TaskIds : \A n \in NumberArgs(t) :
        /\ completeStepV2(sm, t, n, "").res = "MissingSummary"
        /\ completeStepV2(sm, t, n, "").sm = sm

\* a complete without summary was refused on a chain with a Todo, an
\* InProgress and a Complete step (and step 0 absent)
C5_Witness ==
    /\ last.mode = "complete" /\ last.res = "MissingSummary"
    /\ HasStatus("t1", StepStatusTodo)
    /\ HasStatus("t1", StepStatusInProgress)
    /\ HasStatus("t1", StepStatusComplete)
    /\ Find(StepsOf("t1"), FromInt(0)) = 0

\* C6: start succeeds only on a Todo step; on an InProgress or Complete step
\* it fails with InvalidTransition and changes nothing; a start repeated
\* right after a successful start of the same number fails.
C6_StartOnlyTodo ==
    \A t \in DOMAIN Chains : \A n \in NumberArgs(t) :
        LET i == Find(StepsOf(t), n)
            r == startStepV2(sm, t, n)
        IN  /\ r.res = "ok" =>
                /\ i # 0
                /\ StepsOf(t)[i].Status = StepStatusTodo
                /\ startStepV2(r.sm, t, n).res = "InvalidTransition"
                /\ startStepV2(r.sm, t, n).sm = r.sm
            /\ (i # 0 /\ StepsOf(t)[i].Status # StepStatusTodo) =>
                /\ r.res = "InvalidTransition"
                /\ r.sm = sm

\* a start was refused on the step that is the current, started one
C6_Witness ==
    /\ last.mode = "start" /\ last.res = "InvalidTransition"
    /\ "t1" \in DOMAIN Chains
    /\ Find(StepsOf("t1"), Chains["t1"].CurrentStep) # 0
    /\ StepsOf("t1")[Find(StepsOf("t1"), Chains["t1"].CurrentStep)].Status
          = StepStatusInProgress

\* C7: in every reachable state the step numbers of a chain are pairwise
\* distinct.
C7_NumbersDistinct ==
    \A t \in DOMAIN Chains : \A i, j \in 1..Len(StepsOf(t)) :
        i # j => StepsOf(t)[i].Number # StepsOf(t)[j].Number

\* C8: in every reachable state the steps of a chain are stored in ascending
\* order of their numbers.
C8_StoredAscending ==
    \A t \in DOMAIN Chains : Ascending(StepsOf(t))

\* C9: insert after an existing anchor a with k new steps, on a chain whose
\* numbers are strictly ascending, adds exactly k Todo steps numbered
\* a + i/10 (i = 1..k) in plan order right behind the step numbered a, and
\* the resulting sequence is ascending by number.
C9_InsertAfterAnchor ==
    \A t \in DOMAIN Chains : \A a \in NumberArgs(t) : \A plan \in Plans :
        LET idx == Find(StepsOf(t), a)
            k == Len(plan)
            r == insertStepsV2(sm, t, a, plan)
            steps == r.sm.TaskChainsV2[t].Steps
        IN  (idx # 0 /\ k > 0 /\ StrictlyAscending(StepsOf(t))) =>
                /\ r.res = "ok"
                /\ Len(steps) = Len(StepsOf(t)) + k
                /\ \A i \in 1..k :
                      /\ steps[idx + i].Number = FAdd(a, FDivTen(i))
                      /\ steps[idx + i].Name =
                            (IF "name" \in DOMAIN plan[i] THEN plan[i].name ELSE "<nil>")
                      /\ steps[idx + i].Status = StepStatusTodo
                /\ SubSeq(steps, 1, idx) = SubSeq(StepsOf(t), 1, idx)
                /\ SubSeq(steps, idx + k + 1, Len(steps))
                      = SubSeq(StepsOf(t), idx + 1, Len(StepsOf(t)))
                /\ Ascending(steps)

\* C10: delete with scope "remaining" removes exactly the Todo steps, keeps
\* every Complete and InProgress step unchanged and in order, and reports
\* the number of Todo steps the chain held.
C10_DeleteRemaining ==
    \A t \in DOMAIN Chains : \A n \in NumberArgs(t) :
        LET r == deleteStepsV2(sm, t, n, "remaining")
            NotTodo(step) == step.Status # StepStatusTodo
        IN  /\ r.res = "ok"
            /\ r.sm.TaskChainsV2[t].Steps = SelectSeq(StepsOf(t), NotTodo)
            /\ r.deleted = Cardinality({i \in 1..Len(StepsOf(t)) :
                                StepsOf(t)[i].Status = StepStatusTodo})
            /\ r.sm.TaskChainsV2[t].CurrentStep = Chains[t].CurrentStep
            /\ r.sm.TaskChainsV2[t].Status = Chains[t].Status

\* a delete of the remaining steps removed Todo steps and left a Complete
\* and an InProgress step behind
C10_Witness ==
    /\ last.mode = "delete" /\ last.res = "ok" /\ last.deleted >= 1
    /\ HasStatus("t1", StepStatusComplete)
    /\ HasStatus("t1", StepStatusInProgress)
    /\ ~HasStatus("t1", StepStatusTodo)

\* step numbers a claim probes: those a command may carry and one more
Probes(t) == NumberArgs(t) \cup {FromInt(9)}

Started(step) == step.Status # StepStatusTodo

\* C11: delete of a single step removes it only if it is Todo: on an
\* InProgress step it fails with CannotDeleteActive, on a positive number no
\* step carries it fails with StepNotFound, and it never removes a Complete
\* step.
C11_DeleteOnlyTodo ==
    \A t \in DOMAIN Chains : \A n \in Probes(t) :
        LET i == Find(StepsOf(t), n)
            r == deleteStepsV2(sm, t, n, "")
        IN  /\ (i # 0 /\ FLess(FromInt(0), n)
                  /\ StepsOf(t)[i].Status = StepStatusInProgress) =>
                    (r.res = "CannotDeleteActive" /\ r.sm = sm)
            /\ (i = 0 /\ FLess(FromInt(0), n)) =>
                    (r.res = "StepNotFound" /\ r.sm = sm)
            /\ (i # 0 /\ StepsOf(t)[i].Status = StepStatusComplete) =>
                    r.sm.TaskChainsV2[t].Steps = StepsOf(t)
            /\ r.res = "ok" => (i # 0 /\ StepsOf(t)[i].Status = StepStatusTodo)

\* C12: a successful update leaves every step that was Complete or
\* InProgress before the call in the chain, unaltered and in order.
C12_UpdateKeepsStartedWork ==
    \A t \in DOMAIN Chains : \A from \in Probes(t) : \A plan \in NonEmptyPlans :
        LET r == updateStepsV2(sm, t, from, plan)
        IN  r.res = "ok" =>
                SelectSeq(r.sm.TaskChainsV2[t].Steps, Started)
                    = SelectSeq(StepsOf(t), Started)

\* C13: update from a number that no step of the chain carries fails with
\* AnchorNotFound and leaves the store as it was.
C13_UpdateUnknownAnchorFails ==
    \A t \in DOMAIN Chains : \A from \in Probes(t) : \A plan \in NonEmptyPlans :
        LET r == updateStepsV2(sm, t, from, plan)
        IN  Find(StepsOf(t), from) = 0 =>
                (r.res = "AnchorNotFound" /\ r.sm = sm)

\* C14: every step a successful update appends carries a number strictly
\* greater than from.
C14_UpdateNumbersAboveFrom ==
    \A t \in DOMAIN Chains : \A from \in Probes(t) : \A plan \in NonEmptyPlans :
        LET r == updateStepsV2(sm, t, from, plan)
            steps == r.sm.TaskChainsV2[t].Steps
        IN  r.res = "ok" =>
                \A j \in (Len(steps) - Len(plan) + 1)..Len(steps) :
                    FLess(from, steps[j].Number)

\* C15: finish on an existing chain succeeds and leaves that chain with
\* status finished and everything else as it was, whatever its steps'
\* statuses.
C15_FinishMarksChain ==
    \A t \in DOMAIN Chains :
        LET r == finishChain(sm, t)
        IN  /\ r.res = "ok"
            /\ r.sm.TaskChainsV2[t] = [Chains[t] EXCEPT !.Status = "finished"]

\* C16: after a finish of a chain, every start, complete, insert, update and
\* delete on it fails and leaves its steps unchanged.
C16_FinishedChainIsFrozen ==
    \A t \in DOMAIN Chains :
        LET f == finishChain(sm, t).sm
            Frozen(r) == /\ r.res # "ok"
                         /\ r.sm.TaskChainsV2[t].Steps = f.TaskChainsV2[t].Steps
        IN  \A n \in Probes(t) :
                /\ Frozen(startStepV2(f, t, n))
                /\ \A summary \in Summaries : Frozen(completeStepV2(f, t, n, summary))
                /\ \A plan \in NonEmptyPlans :
                      /\ Frozen(insertStepsV2(f, t, n, plan))
                      /\ Frozen(updateStepsV2(f, t, n, plan))
                /\ \A scope \in {"", "remaining"} : Frozen(deleteStepsV2(f, t, n, scope))

\* C17: in every reachable state a chain, of either store, is finished only
\* if a finish was executed for its task_id earlier: no initialize, start,
\* complete, insert, update, delete or next has turned it finished.
C17_FinishedOnlyByRequest ==
    /\ \A t \in DOMAIN Chains :
          Chains[t].Status = "finished" => t \in finishRequests
    /\ \A t \in DOMAIN sm.TaskChains :
          sm.TaskChains[t].Status = "finished" => t \in finishRequests

\* a next was handled for a chain whose steps are all Complete and no finish
\* was requested: the chain is still running
C17_Witness ==
    /\ last.mode = "next" /\ last.res = "ok"
    /\ finishRequests = {}
    /\ "t1" \in DOMAIN Chains
    /\ Len(StepsOf("t1")) > 0
    /\ \A i \in 1..Len(StepsOf("t1")) : StepsOf("t1")[i].Status = StepStatusComplete
    /\ Chains["t1"].Status = "running"

\* C18: initialize on a task_id that has a chain fails with DuplicateChain
\* and leaves the store as it was.
C18_InitializeOnce ==
    \A t \in DOMAIN Chains : \A d \in Descriptions : \A plan \in NonEmptyPlans :
        LET r == initTaskChainV2(sm, t, d, plan)
        IN  r.res = "DuplicateChain" /\ r.sm = sm

\* C19: on a task_id without a chain, start, complete with a summary, insert
\* and update with a plan, delete and finish each fail with ChainNotFound and
\* leave the store as it was.
C19_UnknownChainRejected ==
    \A t \in TaskIds \ (DOMAIN Chains \cup DOMAIN sm.TaskChains) :
        LET Rejected(r) == r.res = "ChainNotFound" /\ r.sm = sm
        IN  /\ Rejected(finishChain(sm, t))
            /\ \A n \in Probes(t) :
                  /\ Rejected(startStepV2(sm, t, n))
                  /\ \A summary \in Summaries : Rejected(completeStepV2(sm, t, n, summary))
                  /\ \A plan \in NonEmptyPlans :
                        /\ Rejected(insertStepsV2(sm, t, n, plan))
                        /\ Rejected(updateStepsV2(sm, t, n, plan))
                  /\ \A scope \in {"", "remaining"} :
                        Rejected(deleteStepsV2(sm, t, n, scope))

\* C20: every command that does not succeed leaves the store, and with it
\* the chain it addressed, exactly as it found them.
C20_FailureLeavesStore ==
    [][last'.res # "ok" => sm' = sm]_vars

\* a delete of the step in progress was refused on a chain that holds
\* completed work
C20_Witness ==
    /\ last.mode = "delete" /\ last.res = "CannotDeleteActive"
    /\ HasStatus("t1", StepStatusComplete)
    /\ HasStatus("t1", StepStatusInProgress)

\* C22: after a successful complete of the step numbered n, whenever the
\* chain holds a Todo step with a number above n, the briefing recommends
\* starting a Todo step whose number is the smallest of those above n.
C22_NextIsSmallestTodoAbove ==
    \A t \in DOMAIN Chains : \A n \in NumberArgs(t) : \A s \in Summaries :
        LET r == completeStepV2(sm, t, n, s)
            steps == r.sm.TaskChainsV2[t].Steps
            above == {j \in 1..Len(steps) :
                        steps[j].Status = StepStatusTodo /\ FLess(n, steps[j].Number)}
        IN  (r.res = "ok" /\ above # {}) =>
                /\ r.out.recommend = "start"
                /\ r.out.nextIdx \in above
                /\ \A j \in above :
                      ~FLess(steps[j].Number, steps[r.out.nextIdx].Number)

\* C23: the briefing of a successful complete recommends finish, or says
\* that all steps are done, only when the chain holds no Todo step.
C23_FinishOnlyWithoutTodo ==
    \A t \in DOMAIN Chains : \A n \in NumberArgs(t) : \A s \in Summaries :
        LET r == completeStepV2(sm, t, n, s)
            steps == r.sm.TaskChainsV2[t].Steps
        IN  (r.res = "ok" /\ (r.out.recommend = "finish" \/ r.out.allDone)) =>
                \A j \in 1..Len(steps) : steps[j].Status # StepStatusTodo

\* C25: no command aborts: whatever the parameters, the handler returns a
\* result or an error value and never indexes outside a step or plan
\* sequence.
C25_NoCommandAborts ==
    /\ last.res # "Panic"
    /\ \A t \in TaskIds : \A n \in NumberArgs(t) : \A plan \in NonEmptyPlans :
          /\ startStepV2(sm, t, n).res # "Panic"
          /\ insertStepsV2(sm, t, n, plan).res # "Panic"
          /\ updateStepsV2(sm, t, n, plan).res # "Panic"
          /\ \A scope \in {"", "remaining"} :
                deleteStepsV2(sm, t, n, scope).res # "Panic"

\* C26: the remaining-steps preview of the briefing of a successful complete
\* lists every step that is Todo at that moment, in chain order, with its
\* printed number, name and input hint.
C26_PreviewListsEveryTodo ==
    \A t \in DOMAIN Chains : \A n \in NumberArgs(t) : \A s \in Summaries :
        LET r == completeStepV2(sm, t, n, s)
            todo == SelectSeq(r.sm.TaskChainsV2[t].Steps, IsTodo)
        IN  r.res = "ok" =>
                r.out.remaining = [i \in 1..Len(todo) |-> PreviewLine(todo[i])]

\* C28: initialize, insert and update with an empty plan are rejected, with
\* EmptyPlan for initialize, and leave the store as it was; an initialize
\* that succeeds leaves a chain of at least one step.
C28_EmptyPlanRejected ==
    \A t \in TaskIds :
        /\ \A d \in Descriptions :
              /\ initTaskChainV2(sm, t, d, <<>>).res = "EmptyPlan"
              /\ initTaskChainV2(sm, t, d, <<>>).sm = sm
              /\ \A plan \in Plans :
                    LET r == initTaskChainV2(sm, t, d, plan)
                    IN  r.res = "ok" => Len(r.sm.TaskChainsV2[t].Steps) >= 1
        /\ \A n \in NumberArgs(t) :
              /\ insertStepsV2(sm, t, n, <<>>).res # "ok"
              /\ insertStepsV2(sm, t, n, <<>>).sm = sm
              /\ updateStepsV2(sm, t, n, <<>>).res # "ok"
              /\ updateStepsV2(sm, t, n, <<>>).sm = sm

\* an update without a plan was refused on a chain that holds a completed
\* step and a Todo step
C28_Witness ==
    /\ last.mode = "update" /\ last.res = "EmptyPlan"
    /\ HasStatus("t1", StepStatusComplete)
    /\ HasStatus("t1", StepStatusTodo)

\* C29: a successful complete changes the status and the summary of one
\* InProgress step and nothing else: the other steps, their order,
\* current_step, the chain status and the rest of the store stay as they
\* were (the briefing is composed from the chain and writes nothing).
C29_CompleteTouchesOneStep ==
    [][(last'.mode = "complete" /\ last'.res = "ok") =>
          \E t \in DOMAIN Chains : \E i \in 1..Len(StepsOf(t)) : \E s \in Summaries :
              /\ StepsOf(t)[i].Status = StepStatusInProgress
              /\ sm' = [sm EXCEPT !.TaskChainsV2[t].Steps[i].Status = StepStatusComplete,
                                  !.TaskChainsV2[t].Steps[i].Summary = s]]_vars

\* a complete succeeded on a chain that holds, besides the completed step,
\* a step in progress and a Todo step, with current_step on another step
C29_Witness ==
    /\ last.mode = "complete" /\ last.res = "ok"
    /\ HasStatus("t1", StepStatusComplete)
    /\ HasStatus("t1", StepStatusInProgress)
    /\ HasStatus("t1", StepStatusTodo)
    /\ Find(StepsOf("t1"), Chains["t1"].CurrentStep) # 0
    /\ StepsOf("t1")[Find(StepsOf("t1"), Chains["t1"].CurrentStep)].Status
          = StepStatusInProgress

\* C30: a successful insert keeps every step the chain held, unchanged and
\* in the same order, around the new steps, and keeps current_step and the
\* chain status; an insert after a number no step carries fails with
\* AnchorNotFound and leaves the store as it was.
C30_InsertKeepsSteps ==
    \A t \in DOMAIN Chains : \A a \in Probes(t) : \A plan \in NonEmptyPlans :
        LET idx == Find(StepsOf(t), a)
            r == insertStepsV2(sm, t, a, plan)
            steps == r.sm.TaskChainsV2[t].Steps
            k == Len(plan)
        IN  /\ idx = 0 => (r.res = "AnchorNotFound" /\ r.sm = sm)
            /\ idx # 0 =>
                  /\ r.res = "ok"
                  /\ SubSeq(steps, 1, idx) \o SubSeq(steps, idx + k + 1, Len(steps))
                        = StepsOf(t)
                  /\ r.sm.TaskChainsV2[t].CurrentStep = Chains[t].CurrentStep
                  /\ r.sm.TaskChainsV2[t].Status = Chains[t].Status
                  /\ r.sm.TaskChainsV2[t].Description = Chains[t].Description
                  /\ r.sm.TaskChains = sm.TaskChains

\* an insert succeeded on a chain that holds completed work, and left a
\* Todo step behind a step in progress
C30_Witness ==
    /\ last.mode = "insert" /\ last.res = "ok"
    /\ HasStatus("t1", StepStatusComplete)
    /\ HasStatus("t1", StepStatusInProgress)
    /\ HasStatus("t1", StepStatusTodo)

\* C27: a command addressed to one task_id leaves the chain of every other
\* task_id in the store, and its place in the store, unchanged.
C27_OtherChainsUntouched ==
    [][\A b \in DOMAIN sm.TaskChainsV2 :
          b \notin CmdIds =>
              /\ b \in DOMAIN sm'.TaskChainsV2
              /\ sm'.TaskChainsV2[b] = sm.TaskChainsV2[b]]_vars

\* the steps of task t1 were deleted, after one of them was completed, in a
\* store that still holds the chain of t2 with its completed step
C27_Witness ==
    /\ last.mode = "delete" /\ last.res = "ok" /\ last.deleted >= 1
    /\ HasStatus("t1", StepStatusComplete)
    /\ HasStatus(OtherTask, StepStatusComplete)
    /\ HasStatus(OtherTask, StepStatusTodo)

\* the step a plan entry without input becomes
PlannedStep(number, name, status, summary) ==
    [Number |-> number, Name |-> name, Input |-> "", Status |-> status,
     Summary |-> summary]

\* C24: the run initialize([n1, n2, n3]); complete(1, s); insert(after 1,
\* [n4]); delete(remaining) passes through these states: after initialize
\* the steps are (1, n1, InProgress), (2, n2, Todo), (3, n3, Todo); after
\* complete step 1 is Complete with summary s and the briefing recommends
\* starting step 2; after insert a Todo step numbered 1.1 sits between steps
\* 1 and 2; the delete removes steps 1.1, 2 and 3 and keeps step 1.
C24_EndToEnd ==
    LET steps == sm.TaskChainsV2["t1"].Steps
        n(i) == scenario.plan[i].name
        one == PlannedStep(FromInt(1), n(1), StepStatusComplete, scenario.summary)
        two == PlannedStep(FromInt(2), n(2), StepStatusTodo, "")
        three == PlannedStep(FromInt(3), n(3), StepStatusTodo, "")
    IN  /\ commands >= 1 => last.res = "ok"
        /\ commands = 1 =>
              steps = <<PlannedStep(FromInt(1), n(1), StepStatusInProgress, ""),
                        two, three>>
        /\ commands = 2 =>
              /\ steps = <<one, two, three>>
              /\ scenario.out.recommend = "start"
              /\ scenario.out.nextNumber = 20
              /\ steps[scenario.out.nextIdx] = two
        /\ commands = 3 =>
              steps = <<one,
                        PlannedStep(FDivTen(11), scenario.insertPlan[1].name,
                                    StepStatusTodo, ""),
                        two, three>>
        /\ commands = 4 =>
              /\ steps = <<one>>
              /\ last.deleted = 3

\* the run with the plan search, analyze, write, the summary "found X" and
\* the inserted step "read file" has handled its delete
C24_Witness ==
    /\ commands = 4 /\ last.mode = "delete"
    /\ scenario.plan = <<[name |-> "search"], [name |-> "analyze"], [name |-> "write"]>>
    /\ scenario.summary = "found X"
    /\ scenario.insertPlan = <<[name |-> "read file"]>>
    /\ Len(sm.TaskChainsV2["t1"].Steps) = 1

\* the outcome of handling the two requests one after the other, first f
\* then g, from store s: the store and the two results
InOrder(s, f, g) ==
    LET a == Handle(s, f)
        b == Handle(a.sm, g)
    IN  [steps |-> b.sm.TaskChainsV2["t1"].Steps,
         first |-> [res |-> a.res, deleted |-> a.deleted],
         second |-> [res |-> b.res, deleted |-> b.deleted]]

\* C21: when two requests on the same chain have both returned, the steps of
\* the chain and the two results are those of handling the requests one
\* after the other, in one of the two orders.
C21_Serializable ==
    (inflight # <<>> /\ \A p \in 1..2 : inflight.reqs[p].pc = "done") =>
        LET r1 == inflight.reqs[1]
            r2 == inflight.reqs[2]
            got(x, y) == [steps |-> sm.TaskChainsV2["t1"].Steps,
                          first |-> [res |-> x.res, deleted |-> x.deleted],
                          second |-> [res |-> y.res, deleted |-> y.deleted]]
            ask(x) == [x EXCEPT !.pc = "ready", !.res = "", !.deleted = 0,
                                !.steps = <<>>]
        IN  \/ got(r1, r2) = InOrder(inflight.base, ask(r1), ask(r2))
            \/ got(r2, r1) = InOrder(inflight.base, ask(r2), ask(r1))


\* how many steps of the chain of t are InProgress
InProgressCount(t) ==
    Cardinality({i \in 1..Len(StepsOf(t)) :
                    StepsOf(t)[i].Status = StepStatusInProgress})

\* C31: start(task_id, n), where the step the lookup of n finds is Todo,
\* succeeds even while another step of the chain is InProgress; its only
\* effect is that step becoming InProgress and current_step becoming n.
C31_StartBesideInProgress ==
    \A t \in DOMAIN Chains : \A n \in NumberArgs(t) :
        LET i == Find(StepsOf(t), n)
            r == startStepV2(sm, t, n)
        IN  (i # 0 /\ StepsOf(t)[i].Status = StepStatusTodo) =>
                /\ r.res = "ok"
                /\ r.sm = [sm EXCEPT
                             !.TaskChainsV2[t].Steps[i].Status = StepStatusInProgress,
                             !.TaskChainsV2[t].CurrentStep = n]

\* a start succeeded and left two steps of the chain InProgress
C31_Witness ==
    /\ last.mode = "start" /\ last.res = "ok"
    /\ "t1" \in DOMAIN Chains
    /\ InProgressCount("t1") >= 2

\* C32: when two complete requests for the same InProgress step, with
\* different non-empty summaries, have both returned, exactly one of them
\* succeeded, the other failed with InvalidTransition, and the step stores
\* the summary of the one that succeeded.
C32_OneCompleteWins ==
    (/\ inflight # <<>>
     /\ \A p \in 1..2 : inflight.reqs[p].pc = "done"
     /\ inflight.reqs[1].number = inflight.reqs[2].number
     /\ inflight.reqs[1].summary # inflight.reqs[2].summary
     /\ LET before == inflight.base.TaskChainsV2["t1"].Steps
            i == Find(before, inflight.reqs[1].number)
        IN  i # 0 /\ before[i].Status = StepStatusInProgress) =>
        \E w \in 1..2 :
            LET won == inflight.reqs[w]
                lost == inflight.reqs[3 - w]
                i == Find(sm.TaskChainsV2["t1"].Steps, won.number)
            IN  /\ won.res = "ok"
                /\ lost.res = "InvalidTransition"
                /\ sm.TaskChainsV2["t1"].Steps[i].Summary = won.summary

\* C33: when two initialize requests for distinct task_ids, run concurrently
\* on a store whose mapping was not created yet, have both returned, both
\* chains are in the store and both requests succeeded.
C33_BothChainsStored ==
    (/\ inflight # <<>>
     /\ \A p \in 1..2 : inflight.reqs[p].pc = "done"
     /\ inflight.reqs[1].taskID # inflight.reqs[2].taskID) =>
        \A p \in 1..2 :
            /\ inflight.reqs[p].taskID \in DOMAIN sm.TaskChainsV2
            /\ inflight.reqs[p].res = "ok"

\* C34: between commands, a step of a chain has a non-empty summary if and
\* only if its status is Complete.
C34_SummaryIffComplete ==
    \A t \in DOMAIN Chains : \A i \in 1..Len(StepsOf(t)) :
        (StepsOf(t)[i].Summary # "") <=> (StepsOf(t)[i].Status = StepStatusComplete)

\* an update replaced the steps behind a completed one: the chain holds a
\* Complete step with its summary next to a new Todo step and a step in
\* progress
C34_Witness ==
    /\ last.mode = "update" /\ last.res = "ok"
    /\ HasStatus("t1", StepStatusComplete)
    /\ HasStatus("t1", StepStatusInProgress)
    /\ HasStatus("t1", StepStatusTodo)

\* C35: between commands, current_step of every chain is the number of a
\* step that is in the chain and is InProgress or Complete.
C35_CurrentStepIsStarted ==
    \A t \in DOMAIN Chains :
        \E i \in 1..Len(StepsOf(t)) :
            /\ StepsOf(t)[i].Number = Chains[t].CurrentStep
            /\ StepsOf(t)[i].Status \in {StepStatusInProgress, StepStatusComplete}

\* C36: whenever a chain holds a Todo step numbered n, start(task_id, n)
\* succeeds and turns a Todo step numbered n into InProgress.
C36_TodoCanStart ==
    \A t \in DOMAIN Chains : \A i \in 1..Len(StepsOf(t)) :
        StepsOf(t)[i].Status = StepStatusTodo =>
            LET n == StepsOf(t)[i].Number
                r == startStepV2(sm, t, n)
            IN  /\ r.res = "ok"
                /\ \E j \in 1..Len(StepsOf(t)) :
                      /\ StepsOf(t)[j].Number = n
                      /\ StepsOf(t)[j].Status = StepStatusTodo
                      /\ r.sm.TaskChainsV2[t].Steps[j].Status = StepStatusInProgress

\* C37: whenever a chain holds an InProgress step numbered n,
\* complete(task_id, n, s) with a non-empty s succeeds and leaves a step
\* numbered n Complete with summary s.
C37_StartedCanComplete ==
    \A t \in DOMAIN Chains : \A i \in 1..Len(StepsOf(t)) : \A s \in Summaries :
        StepsOf(t)[i].Status = StepStatusInProgress =>
            LET n == StepsOf(t)[i].Number
                r == completeStepV2(sm, t, n, s)
            IN  /\ r.res = "ok"
                /\ \E j \in 1..Len(StepsOf(t)) :
                      /\ StepsOf(t)[j].Number = n
                      /\ StepsOf(t)[j].Status = StepStatusInProgress
                      /\ r.sm.TaskChainsV2[t].Steps[j].Status = StepStatusComplete
                      /\ r.sm.TaskChainsV2[t].Steps[j].Summary = s

\* every step of the chain of t is Complete
AllComplete(t) ==
    /\ t \in DOMAIN Chains
    /\ \A i \in 1..Len(StepsOf(t)) : StepsOf(t)[i].Status = StepStatusComplete

\* the actor has read a briefing that recommends finish
FinishRecommended ==
    /\ last.mode = "complete" /\ last.res = "ok"
    /\ scenario.out # <<>>
    /\ scenario.out.recommend = "finish"

\* C38: from a freshly initialized chain of N steps, an actor that always
\* completes the step in progress and then starts the step the briefing
\* recommends needs no more than 2N commands, and in the end every step is
\* Complete and the last briefing recommends finish.
C38_ActorFinishes ==
    /\ [](commands <= 2 * Len(StepsOf("t1")))
    /\ <>(AllComplete("t1") /\ FinishRecommended)

\* a chain of three steps was worked through to the end
C38_Witness ==
    /\ AllComplete("t1")
    /\ FinishRecommended
    /\ Len(StepsOf("t1")) = 3
    /\ commands = 6

\* C39: no sequence of commands puts a chain into the linear (V1) store:
\* mode step creates chains in the V2 store only, so next answers without a
\* chain and changes nothing, and resume and finish find no V1 chain.
C39_LegacyStoreStaysEmpty ==
    /\ DOMAIN sm.TaskChains = {}
    /\ \A t \in TaskIds :
          /\ getNextStep(sm, t) = Ret(sm, "ok", 0)
          /\ resumeTask(sm, t) = Ret(sm, "ok", 0)
          /\ finishChain(sm, t) = Ret(sm, "ok", 0)
    /\ (last.mode = "step" /\ last.res = "ok") => DOMAIN Chains # {}

\* a resume was handled for a task whose chain, created by mode step, holds
\* completed work
C39_Witness ==
    /\ last.mode = "resume" /\ last.res = "ok"
    /\ HasStatus("t1", StepStatusComplete)
    /\ DOMAIN sm.TaskChains = {}

====
